---- MODULE Spec2Model ----
(***************************************************************************)
(* State-machine model of the vectorizer of BC3415-Group-Project:          *)
(* vectorizer/app/vectordb/vectordb.py (class VectorDB) and                *)
(* vectorizer/app/embeddings/embedding_generator.py.                       *)
(*                                                                         *)
(* The Qdrant server is one shared store of named collections.  Every      *)
(* VectorDB instance is a client process of its own; the requests of       *)
(* different instances interleave at the granularity of single client      *)
(* calls.  Inside one instance asyncio runs the embedding tasks of a batch *)
(* concurrently; they settle in any order, and the coroutine may be        *)
(* cancelled where it awaits.  A search reads the collection of its        *)
(* instance and returns the server's answer.                               *)
(***************************************************************************)
EXTENDS Integers, Sequences, FiniteSets, TLC

\* ------------------------------------------------------------------ bounds
\* Largest number of rows of the SQLite table.
MaxRows == 2
\* Largest number of non-empty chunks the splitter yields for the table.
MaxChunks == 4
\* Largest number of "\n##" pieces of the fetched FAQ text.
MaxSections == 2
\* Largest number of create_embeddings calls, all instances together.
MaxRuns == 2
\* Largest number of embedding calls that fail, all runs together.
MaxFailures == 1
\* batch_size of index_regular_docs and the chunk size of index_faq_docs.
\* The program's value is 100 (vectordb.py:156, :207); the model scales it
\* down so that runs of several batches, full and partial, are explored.
batch_size == 2
\* Largest `limit` a search is made with; the default of search is 2.
MaxLimit == 2
\* Largest number of search_flights calls made with one config.
MaxCalls == 3

\* ------------------------------------------------------- program constants
VectorSize == 384
Cosine == "Cosine"

\* The client processes.
Instances == {1, 2}

\* (table_name, collection_name) pairs an instance is constructed with.
Configs == { <<"flights", "flights_collection">>, <<"faq", "faq_collection">> }

CollNames == { cfg[2] : cfg \in Configs }

\* ------------------------------------------------------------ source data
FlightCols ==
  { "flight_no", "departure_airport", "arrival_airport", "scheduled_departure",
    "scheduled_arrival", "actual_departure", "actual_arrival", "status",
    "aircraft_code" }

\* Column sets the flights table may have: as shipped, with an extra column
\* named like the payload's text key, and with a template column missing.
ColumnSets == { FlightCols, FlightCols \cup {"content"}, FlightCols \ {"status"} }

\* The value in column f of row n.
Cell(f, n) == [col |-> f, row |-> n]

\* dict(zip(column_names, row)) for row n.
Record(cols, n) == [f \in cols |-> Cell(f, n)]

\* ------------------------------------------------------------- formatting
KeyError == [raised |-> "KeyError"]

Template(kind, data, fields) ==
  IF fields \subseteq DOMAIN data
    THEN [template |-> kind, args |-> [f \in fields |-> data[f]]]
    ELSE KeyError

\* Each branch interpolates data[f] for the fields f of its template (the
\* booked flag as "booked" / "not booked"); a field the record lacks raises
\* KeyError.  Any other collection name gives str(data).
format_content(data, collection_name) ==
  CASE collection_name = "car_rentals_collection" ->
         Template("Car rental", data,
                  {"booked", "name", "location", "price_tier", "start_date", "end_date"})
    [] collection_name = "excursions_collection" ->
         Template("Excursion", data,
                  {"booked", "name", "location", "details", "keywords"})
    [] collection_name = "flights_collection" ->
         Template("Flight", data, FlightCols)
    [] collection_name = "hotels_collection" ->
         Template("Hotel", data,
                  {"booked", "name", "location", "price_tier", "checkin_date",
                   "checkout_date"})
    [] collection_name = "faq_collection" ->
         IF "page_content" \in DOMAIN data THEN data["page_content"] ELSE KeyError
    [] OTHER -> [template |-> "str", args |-> data]

\* ---------------------------------------------------------------- chunks
\* A chunk is part number `part` of a text; part 0 is the empty string.
Chunk(text, k) == [src |-> text, part |-> k]

NoText == [template |-> "", args |-> <<>>]

EmptyChunk == Chunk(NoText, 0)

\* `if chunk:` -- the truth value of a string.
Truthy(chunk) == chunk.part # 0

\* recursive_character_splitting(text), for a text the splitter cuts into
\* `parts` pieces; with `blank` it also yields an empty string at the end.
recursive_character_splitting(text, parts, blank) ==
  [k \in 1..parts |-> Chunk(text, k)] \o (IF blank THEN <<EmptyChunk>> ELSE <<>>)

\* -------------------------------------------------------------- embedding
\* generate_embedding(content): the encoder is deterministic, one vector of
\* 384 floats per text.
generate_embedding(content) == [dim |-> VectorSize, of |-> content]

\* payload={"content": chunk, **metadata}: a key of metadata replaces an
\* equal key written before it.
Payload(chunk, metadata) ==
  [f \in {"content"} \cup DOMAIN metadata |->
     IF f \in DOMAIN metadata THEN metadata[f] ELSE chunk]

PointStruct(id, vector, payload) == [id |-> id, vector |-> vector, payload |-> payload]

\* ------------------------------------------------------------ the store
NoCollection == [exists |-> FALSE, size |-> 0, distance |-> "", points |-> {}]

FreshCollection(size, distance) ==
  [exists |-> TRUE, size |-> size, distance |-> distance, points |-> {}]

\* Mutant of UpsertPoints: the call sends the first point only.
UpsertPointsFirst(coll, pts) ==
  [coll EXCEPT !.points = @ \cup { p \in pts : \A q \in pts : p.id[2] <= q.id[2] }]

\* client.upsert: insert, or overwrite the point of the same id.
UpsertPoints(coll, pts) ==
  [coll EXCEPT !.points = { p \in @ : \A q \in pts : q.id # p.id } \cup pts]

\* --------------------------------------------------------------- search
\* The row a text was formatted from; 0 for a text that is not a row's.
RowOf(text) ==
  IF text.template = "Flight" THEN text.args["flight_no"].row ELSE 0

\* Cosine similarity of two embeddings, in hundredths.  The encoder gives
\* equal texts equal vectors, at similarity 1; different texts get different
\* vectors, no two of them equally near to a query.
Similarity(u, v) ==
  IF u.of = v.of THEN 100 ELSE 99 - (10 * RowOf(v.of.src) + v.of.part)

\* A hit of client.search with with_payload=True: the point without its vector.
ScoredPoint(p, query_vector) ==
  [id |-> p.id, score |-> Similarity(query_vector, p.vector), payload |-> p.payload]

\* Mutant of Nearest: the server takes the points in any order.
NearestAny(pts, query_vector) == pts

\* The points of pts nearest to the query vector.
Nearest(pts, query_vector) ==
  { p \in pts : \A q \in pts :
      Similarity(query_vector, q.vector) <= Similarity(query_vector, p.vector) }

\* The answers client.search may give on the points pts: the `limit`
\* nearest ones, nearest first; points at one distance come in any order.
RECURSIVE client_search(_, _, _)
client_search(pts, query_vector, limit) ==
  IF limit = 0 \/ pts = {}
    THEN { <<>> }
    ELSE UNION { { <<ScoredPoint(p, query_vector)>> \o rest :
                     rest \in client_search(pts \ {p}, query_vector, limit - 1) } :
                 p \in Nearest(pts, query_vector) }

\* No search made: what the instance holds of its last search.
NoHits == [limit |-> 0, query |-> EmptyChunk, result |-> <<>>]

\* ------------------------------------------------------------------ state
VARIABLES
  read,      \* whether the SQLite table has been read yet
  rows,      \* the rows of the SQLite table, as dict(zip(column_names, row))
  chunker,   \* how recursive_character_splitting cuts the text of each row
  store,     \* the Qdrant server: collection name -> collection
  inst,      \* the VectorDB instances: fields and position of each
  runs,      \* number of create_embeddings calls made so far
  faults,    \* number of embedding calls that have failed so far
  hist       \* history, per collection, since it was last created: the runs
             \* that returned, the embedding calls that failed, and whether
             \* a run raised

\* The travel agent.
VARIABLES
  asst       \* Assistant.__call__: the caller's state object, the local
             \* `state`, the loop index, what the runnable was invoked
             \* with, its last outcome, and the value returned
VARIABLES
  fl         \* search_flights: config["configurable"] (flight_context and
             \* last_prompt) and, of the last call, the merged context,
             \* the parameters of its query and what it returned
VARIABLES
  tk         \* the tables tickets and ticket_flights, and the last call
             \* of a ticket tool with what it returned
VARIABLES
  tg         \* the telegram bot: PENDING, per thread the snapshot of the
             \* graph (next, and the id of the pending tool call), and
             \* the last message handled with what was done for it

\* The variables of the vectorizer, and those of the travel agent.
vectorizer == <<read, rows, chunker, store, inst, runs, faults, hist>>

agent == <<asst, fl, tk, tg>>

vars == <<vectorizer, agent>>

NoInstance ==
  [ pc |-> "none", table_name |-> "", collection_name |-> "", seen |-> FALSE,
    paired |-> <<>>, bstart |-> 0, total_points |-> 0, pending |-> {},
    points |-> <<>>, run_no |-> 0, skipped |-> 0, result |-> "",
    hits |-> NoHits ]

NoHistory == [runs |-> 0, failed |-> 0, raised |-> FALSE]

\* The tables the database may hold, each with the way the splitter cuts
\* the text of its rows.
RECURSIVE SumTo(_, _)
SumTo(parts, n) == IF n = 0 THEN 0 ELSE SumTo(parts, n - 1) + parts[n]

Tables ==
  UNION { { [ rows    |-> [r \in 1..n |-> Record(cols, r)],
              chunker |-> [parts |-> parts, blank |-> b] ] :
              parts \in { f \in [1..n -> 0..MaxChunks] : SumTo(f, n) <= MaxChunks },
              b \in BOOLEAN } :
          cols \in ColumnSets, n \in 0..MaxRows }

\* The table is the same at every read; the model draws it at the first.
TablesAt(known) ==
  IF known THEN { [rows |-> rows, chunker |-> chunker] } ELSE Tables

InitVectorizer ==
  /\ read = FALSE
  /\ rows = <<>>
  /\ chunker = [parts |-> <<>>, blank |-> FALSE]
  /\ store = [c \in CollNames |-> NoCollection]
  /\ inst = [i \in Instances |-> NoInstance]
  /\ runs = 0
  /\ faults = 0
  /\ hist = [c \in CollNames |-> NoHistory]

Coll(i) == inst[i].collection_name

\* The instance when a method returns or raises: its locals are gone, what
\* it logged stays.  The running total is logged by the closing line of a
\* run that returns; an exception leaves with nothing but itself.
Left(r, pc, result) ==
  [r EXCEPT !.pc = pc, !.result = result, !.seen = FALSE,
            !.paired = <<>>, !.bstart = 0, !.pending = {}, !.points = <<>>,
            !.total_points = IF pc = "raised" THEN 0 ELSE @,
            !.hits = NoHits]

Failed(c) == [hist EXCEPT ![c].failed = @ + 1]

Raised(c) == [hist EXCEPT ![c].raised = TRUE]

Returned(c) == [hist EXCEPT ![c].runs = @ + 1]

\* --------------------------------------------------- VectorDB.__init__
Construct(i) ==
  /\ inst[i].pc = "none"
  /\ \E cfg \in Configs, create_collection \in BOOLEAN :
       inst' = [inst EXCEPT ![i] =
                  [@ EXCEPT !.table_name = cfg[1],
                            !.collection_name = cfg[2],
                            !.pc = IF create_collection THEN "coc_exists" ELSE "idle"]]
  /\ UNCHANGED <<read, rows, chunker, store, runs, faults, hist>>
  /\ UNCHANGED agent

\* ------------------------------------------- create_or_clear_collection
CreateOrClear(i) ==
  /\ inst[i].pc = "idle"
  /\ inst' = [inst EXCEPT ![i] = [@ EXCEPT !.pc = "coc_exists", !.hits = NoHits]]
  /\ UNCHANGED <<read, rows, chunker, store, runs, faults, hist>>
  /\ UNCHANGED agent

\* client.collection_exists(...)
CollectionExists(i) ==
  /\ inst[i].pc = "coc_exists"
  /\ inst' = [inst EXCEPT ![i] =
                [@ EXCEPT !.seen = store[Coll(i)].exists,
                          !.pc = IF store[Coll(i)].exists
                                   THEN "coc_delete" ELSE "coc_create"]]
  /\ UNCHANGED <<read, rows, chunker, store, runs, faults, hist>>
  /\ UNCHANGED agent

\* Mutant of Deleted: the existing collection is not removed.
DeletedKept(coll) == coll

\* What client.delete_collection leaves of a collection; deleting one that
\* is gone is no error.
Deleted(coll) == NoCollection

DeleteCollection(i) ==
  /\ inst[i].pc = "coc_delete"
  /\ store' = [store EXCEPT ![Coll(i)] = Deleted(@)]
  /\ inst' = [inst EXCEPT ![i].pc = "coc_create"]
  /\ UNCHANGED <<read, rows, chunker, runs, faults, hist>>
  /\ UNCHANGED agent

\* What client.create_collection leaves of collection `coll`: the server
\* refuses to create a collection that exists.
CreatedFrom(coll) ==
  IF coll.exists THEN coll ELSE FreshCollection(VectorSize, Cosine)

CreateCollection(i) ==
  /\ inst[i].pc = "coc_create"
  /\ store' = [store EXCEPT ![Coll(i)] = CreatedFrom(@)]
  /\ inst' = [inst EXCEPT ![i] =
                IF store[Coll(i)].exists
                  THEN Left(@, "raised", "Conflict")
                  ELSE Left(@, "idle", @.result)]
  /\ hist' = IF store[Coll(i)].exists
               THEN hist
               ELSE [hist EXCEPT ![Coll(i)] = NoHistory]
  /\ UNCHANGED <<read, rows, chunker, runs, faults>>
  /\ UNCHANGED agent

\* ------------------------------------------------------- process_chunk
\* Mutant of uuid4: the id depends on the chunk alone, the same in every run.
uuid4Stable(run, idx) == <<0, idx>>

\* str(uuid.uuid4()): a value no other call returns.  Task `idx` of run
\* `run` gets the pair (run, idx), which no other task of any run gets.
uuid4(run, idx) == <<run, idx>>

\* process_chunk(chunk, metadata), its id drawn as `id`.
process_chunk(chunk, metadata, id) ==
  PointStruct(id, generate_embedding(chunk), Payload(chunk, metadata))

\* The point task k of the current batch of instance i returns.
TaskPoint(i, k) ==
  LET pair == inst[i].paired[inst[i].bstart + k]
  IN  process_chunk(pair[1], pair[2], uuid4(inst[i].run_no, inst[i].bstart + k))

\* ---------------------------------------------------- create_embeddings
CreateEmbeddings(i) ==
  /\ inst[i].pc = "idle"
  /\ runs < MaxRuns
  /\ runs' = runs + 1
  /\ inst' = [inst EXCEPT ![i] =
                [@ EXCEPT !.pc = IF inst[i].table_name = "faq" THEN "faq_fetch" ELSE "load",
                          !.run_no = runs + 1,
                          !.paired = <<>>, !.bstart = 0, !.total_points = 0,
                          !.pending = {}, !.points = <<>>,
                          !.skipped = 0, !.result = "", !.hits = NoHits]]
  /\ UNCHANGED <<read, rows, chunker, store, faults, hist>>
  /\ UNCHANGED agent

\* --------------------------------------------------- index_regular_docs
\* The (chunk, item) pairs of row r: the non-empty chunks of its text.
PairsOf(item, text, parts, blank) ==
  LET chunks == recursive_character_splitting(text, parts, blank)
      kept   == SelectSeq(chunks, Truthy)
  IN  [j \in 1..Len(kept) |-> <<kept[j], item>>]

RECURSIVE BuildPaired(_, _, _, _)
BuildPaired(data, collection_name, splitter, n) ==
  IF n = 0
    THEN <<>>
    ELSE BuildPaired(data, collection_name, splitter, n - 1)
           \o PairsOf(data[n], format_content(data[n], collection_name),
                      splitter.parts[n], splitter.blank)

FormatRaises(data, collection_name) ==
  \E r \in 1..Len(data) : format_content(data[r], collection_name) = KeyError

\* Mutant of NoData: a table without rows is an error.
NoDataRaised(r) == Left(r, "raised", "NoData")

\* Lines 138-140: without rows, a warning and return.
NoData(r) == Left(r, "idle", "no_data")

\* Lines 131-157: load the rows, build `paired`, return early on nothing.
LoadRows(i) ==
  /\ inst[i].pc = "load"
  /\ \E t \in TablesAt(read) :
       LET cn    == Coll(i)
           empty == t.rows = <<>>
           bad   == ~empty /\ FormatRaises(t.rows, cn)
           prs   == IF empty \/ bad
                      THEN <<>>
                      ELSE BuildPaired(t.rows, cn, t.chunker, Len(t.rows))
       IN  /\ read' = TRUE
           /\ rows' = t.rows
           /\ chunker' = t.chunker
           /\ inst' = [inst EXCEPT ![i] =
                         IF bad THEN Left(@, "raised", "KeyError")
                         ELSE IF empty THEN NoData(@)
                         ELSE IF prs = <<>> THEN Left(@, "idle", "no_chunks")
                         ELSE [@ EXCEPT !.paired = prs, !.pc = "batch"]]
           /\ hist' = IF bad THEN Raised(cn)
                      ELSE IF prs = <<>> THEN Returned(cn) ELSE hist
  /\ UNCHANGED <<store, runs, faults>>
  /\ UNCHANGED agent

\* Mutant of BatchLen: the slice is not cut at batch_size.
BatchLenUncut(paired, bstart) == Len(paired) - bstart

\* Number of chunks of the batch that starts after `bstart` pairs.
BatchLen(paired, bstart) ==
  IF Len(paired) - bstart < batch_size THEN Len(paired) - bstart ELSE batch_size

\* Lines 159-169: slice the batch and start one task per chunk.
StartBatch(i) ==
  /\ inst[i].pc = "batch"
  /\ inst' = [inst EXCEPT ![i] =
                [@ EXCEPT !.pending = 1..BatchLen(inst[i].paired, inst[i].bstart),
                          !.points = <<>>,
                          !.pc = "gather"]]
  /\ UNCHANGED <<read, rows, chunker, store, runs, faults, hist>>
  /\ UNCHANGED agent

\* Lines 171-173: a task returns its point; it is appended in completion order.
TaskDone(i) ==
  /\ inst[i].pc = "gather"
  /\ \E k \in inst[i].pending :
       inst' = [inst EXCEPT ![i] =
                  [@ EXCEPT !.pending = @ \ {k},
                            !.points = Append(@, TaskPoint(i, k))]]
  /\ UNCHANGED <<read, rows, chunker, store, runs, faults, hist>>
  /\ UNCHANGED agent

\* Mutant of Logged: the exception of a task leaves the loop, as in gather.
LoggedAndRaised(r) == Left([r EXCEPT !.skipped = @ + 1], "raised", "EmbeddingError")

\* Lines 174-175: the except clause logs the error and the loop goes on.
Logged(r) == [r EXCEPT !.skipped = @ + 1]

\* The embedding of a chunk raises.
TaskFail(i) ==
  /\ inst[i].pc = "gather"
  /\ faults < MaxFailures
  /\ faults' = faults + 1
  /\ \E k \in inst[i].pending :
       inst' = [inst EXCEPT ![i] = Logged([@ EXCEPT !.pending = @ \ {k}])]
  /\ hist' = Failed(Coll(i))
  /\ UNCHANGED <<read, rows, chunker, store, runs>>
  /\ UNCHANGED agent

\* Mutant of Settled: the upsert does not wait for the loop to end.
SettledNotAwaited(i) == TRUE

\* Whether the loop over as_completed has ended.
Settled(i) == inst[i].pending = {}

\* Mutant of AfterBatch: a last batch of fewer than batch_size pairs is dropped.
AfterBatchFullOnly(r, added) ==
  LET more == r.bstart + 2 * batch_size <= Len(r.paired)
      done == [r EXCEPT !.total_points = @ + added]
  IN  IF more
        THEN [done EXCEPT !.bstart = @ + batch_size, !.pc = "batch"]
        ELSE Left(done, "idle", "finished")

\* The instance after the batch: the next batch, or lines 185-187 and return.
AfterBatch(r, added) ==
  LET more == r.bstart + batch_size < Len(r.paired)
      done == [r EXCEPT !.total_points = @ + added]
  IN  IF more
        THEN [done EXCEPT !.bstart = @ + batch_size, !.pc = "batch"]
        ELSE Left(done, "idle", "finished")

Range(seq) == { seq[j] : j \in 1..Len(seq) }

\* Lines 177-183: one upsert of the batch's points, none when it has no point.
\* The call raises when the collection is gone or the server cannot be reached.
UpsertBatch(i) ==
  /\ inst[i].pc = "gather"
  /\ Settled(i)
  /\ LET cn  == Coll(i)
         pts == inst[i].points
     IN  \E ok \in {b \in BOOLEAN : b => (pts = <<>> \/ store[cn].exists)} :
           IF ok
             THEN LET after == AfterBatch(inst[i], Len(pts))
                  IN  /\ store' = IF pts = <<>>
                                    THEN store
                                    ELSE [store EXCEPT ![cn] = UpsertPoints(@, Range(pts))]
                      /\ inst' = [inst EXCEPT ![i] = after]
                      /\ hist' = IF after.pc = "idle" THEN Returned(cn) ELSE hist
             ELSE /\ pts # <<>>
                  /\ inst' = [inst EXCEPT ![i] = Left(@, "raised", "UpsertError")]
                  /\ hist' = Raised(cn)
                  /\ UNCHANGED store
  /\ UNCHANGED <<read, rows, chunker, runs, faults>>
  /\ UNCHANGED agent

\* -------------------------------------------------------- index_faq_docs
FaqDoc == [template |-> "swiss_faq.md", args |-> <<>>]

ErrorPage == [template |-> "error page", args |-> <<>>]

\* A piece of re.split(r"(?=\n##)", text): section `part` of the text with
\* white space around it; part 0 is white space only.
Piece(text, k) == [of |-> text, part |-> k, pad |-> TRUE]

\* The pieces of a text of n sections, `lead` when white space precedes the first.
Pieces(text, n, lead) ==
  (IF lead THEN <<Piece(text, 0)>> ELSE <<>>) \o [k \in 1..n |-> Piece(text, k)]

\* What session.get(faq_url) and response.text() give: no connection, or the
\* status and body of a response.  Nothing looks at the status.
Responses ==
  { [connected |-> FALSE, status |-> 0, text |-> <<>>] }
    \cup { [connected |-> TRUE, status |-> 200, text |-> Pieces(FaqDoc, n, lead)] :
             n \in 0..MaxSections, lead \in BOOLEAN }
    \cup { [connected |-> TRUE, status |-> 500, text |-> Pieces(ErrorPage, 1, FALSE)] }

\* txt.strip()
Strip(piece) == Chunk(piece.of, piece.part)

\* Line 199 and 202: the stripped non-blank pieces, each paired with {"type": "faq"}.
FaqPaired(text) ==
  LET stripped == [j \in 1..Len(text) |-> Strip(text[j])]
      docs     == SelectSeq(stripped, Truthy)
  IN  [j \in 1..Len(docs) |-> <<docs[j], [type |-> "faq"]>>]

\* Lines 195-203: fetch, split, start one task per document.  Without a
\* document gather returns at once and lines 206-214 upsert nothing.
FetchFaq(i) ==
  /\ inst[i].pc = "faq_fetch"
  /\ \E resp \in Responses :
       LET prs == FaqPaired(resp.text)
       IN  /\ inst' = [inst EXCEPT ![i] =
                         IF ~resp.connected THEN Left(@, "raised", "ClientError")
                         ELSE IF prs = <<>> THEN Left(@, "idle", "none_indexed")
                         ELSE [@ EXCEPT !.paired = prs,
                                        !.pending = 1..Len(prs),
                                        !.pc = "faq_gather"]]
           /\ hist' = IF ~resp.connected THEN Raised(Coll(i))
                      ELSE IF prs = <<>> THEN Returned(Coll(i)) ELSE hist
  /\ UNCHANGED <<read, rows, chunker, store, runs, faults>>
  /\ UNCHANGED agent

\* A task of gather returns its point; gather keeps the results in task order.
FaqTaskDone(i) ==
  /\ inst[i].pc = "faq_gather"
  /\ \E k \in inst[i].pending :
       inst' = [inst EXCEPT ![i] =
                  [@ EXCEPT !.pending = @ \ {k},
                            !.points = IF inst[i].pending = {k}
                                         THEN [j \in 1..Len(inst[i].paired) |-> TaskPoint(i, j)]
                                         ELSE <<>>]]
  /\ UNCHANGED <<read, rows, chunker, store, runs, faults, hist>>
  /\ UNCHANGED agent

\* What gather does with the exception of one task: it raises it to
\* index_faq_docs, which does not catch it.
GatherRaised(r) == Left([r EXCEPT !.skipped = @ + 1], "raised", "EmbeddingError")

FaqTaskFail(i) ==
  /\ inst[i].pc = "faq_gather"
  /\ faults < MaxFailures
  /\ faults' = faults + 1
  /\ \E k \in inst[i].pending :
       inst' = [inst EXCEPT ![i] = GatherRaised([@ EXCEPT !.pending = @ \ {k}])]
  /\ hist' = [hist EXCEPT ![Coll(i)] = [@ EXCEPT !.failed = @ + 1, !.raised = TRUE]]
  /\ UNCHANGED <<read, rows, chunker, store, runs>>
  /\ UNCHANGED agent

\* Lines 206-214: upsert the points, 100 at a time, then log.
FaqUpsert(i) ==
  /\ inst[i].pc = "faq_gather"
  /\ Settled(i)
  /\ LET cn   == Coll(i)
         r    == inst[i]
         from == r.bstart + 1
         to   == r.bstart + BatchLen(r.points, r.bstart)
         pts  == { r.points[j] : j \in from..to }
         last == to >= Len(r.points)
     IN  \E ok \in {b \in BOOLEAN : b => store[cn].exists} :
           IF ok
             THEN /\ store' = [store EXCEPT ![cn] = UpsertPoints(@, pts)]
                  /\ inst' = [inst EXCEPT ![i] =
                                IF last
                                  THEN Left([@ EXCEPT !.total_points = @ + Cardinality(pts)],
                                            "idle", "finished")
                                  ELSE [@ EXCEPT !.bstart = to,
                                                 !.total_points = @ + Cardinality(pts)]]
                  /\ hist' = IF last THEN Returned(cn) ELSE hist
             ELSE /\ inst' = [inst EXCEPT ![i] = Left(@, "raised", "UpsertError")]
                  /\ hist' = Raised(cn)
                  /\ UNCHANGED store
  /\ UNCHANGED <<read, rows, chunker, runs, faults>>
  /\ UNCHANGED agent

\* ---------------------------------------------------------------- search
\* The texts searched for: the first chunk of a flight as the table as
\* shipped formats it, and a section of the FAQ.
Queries ==
  { Chunk(Template("Flight", Record(FlightCols, 1), FlightCols), 1),
    Chunk(FaqDoc, 1) }

\* Mutant of Searched: the server creates the collection it is asked about.
SearchedCreated(coll) == CreatedFrom(coll)

\* What client.search leaves of the collection it reads.
Searched(coll) == coll

\* search(query, limit): embed the query, ask the server, return its answer.
\* The server answers a search in a collection it does not have with an error.
Search(i) ==
  /\ inst[i].pc = "idle"
  /\ \E query \in Queries, limit \in 1..MaxLimit :
       LET query_vector == generate_embedding(query)
       IN  IF store[Coll(i)].exists
             THEN \E answer \in client_search(store[Coll(i)].points, query_vector, limit) :
                    inst' = [inst EXCEPT ![i].hits =
                               [limit |-> limit, query |-> query, result |-> answer]]
             ELSE inst' = [inst EXCEPT ![i] = Left(@, "raised", "NotFound")]
  /\ store' = [store EXCEPT ![Coll(i)] = Searched(@)]
  /\ UNCHANGED <<read, rows, chunker, runs, faults, hist>>
  /\ UNCHANGED agent

\* ---------------------------------------------------------- cancellation
\* Where coroutine i is suspended in an await: on a task of the batch still
\* pending (line 167), on gather (line 203) or on the fetch (lines 195-197).
\* The upserts are blocking calls between which nothing is awaited.
Awaiting(i) ==
  \/ inst[i].pc \in {"gather", "faq_gather"} /\ inst[i].pending # {}
  \/ inst[i].pc = "faq_fetch"

\* asyncio.run cancels the coroutine (an interrupt of the process): the
\* CancelledError is raised at the await.  It is no Exception, so the except
\* clause of line 174 does not catch it; nothing else does either.
Cancel(i) ==
  /\ Awaiting(i)
  /\ inst' = [inst EXCEPT ![i] = Left(@, "raised", "CancelledError")]
  /\ hist' = Raised(Coll(i))
  /\ UNCHANGED <<read, rows, chunker, store, runs, faults>>
  /\ UNCHANGED agent

\* ================================================= the travel agent
\* ------------------------------------------------------- Assistant
MAX_RECURSION_DEPTH == 25

\* Message content: a string, or a list of content blocks.
Str(s) == [list |-> FALSE, text |-> s, blocks |-> <<>>]

Blocks(bs) == [list |-> TRUE, text |-> "", blocks |-> bs]

TextBlock(s) == [type |-> "text", text |-> s]

AIMessage(tool_calls, content) ==
  [role |-> "ai", tool_calls |-> tool_calls, content |-> content]

Human(s) == [role |-> "user", tool_calls |-> <<>>, content |-> Str(s)]

\* What runnable.invoke returns: a message with a tool call, with text as
\* a string or as a block, or with neither.
Results ==
  { AIMessage(<<"call_1">>, Str("")),
    AIMessage(<<>>, Str("Your flight leaves at 10:00.")),
    AIMessage(<<>>, Blocks(<<TextBlock("Your flight leaves at 10:00.")>>)),
    AIMessage(<<>>, Str("")),
    AIMessage(<<>>, Blocks(<<>>)),
    AIMessage(<<>>, Blocks(<<TextBlock("")>>)) }

\* The exception of an invocation that raises.
InvokeError == AIMessage(<<"raised">>, Str("Exception"))

\* `not result.content`
NoContent(content) ==
  IF content.list THEN content.blocks = <<>> ELSE content.text = ""

\* Mutant of EmptyOutput: the tool calls are not looked at.
EmptyOutputByContent(result) == NoContent(result.content)

\* Lines 48-52: no tool call, and no content or a first block without text.
EmptyOutput(result) ==
  /\ result.tool_calls = <<>>
  /\ \/ NoContent(result.content)
     \/ result.content.list /\ result.content.blocks[1].text = ""

\* Lines 63-67 and 71-75.
GotStuck ==
  [messages |-> AIMessage(<<>>,
     Str("I'm sorry - I got stuck trying to complete your request. Let's start over."))]

WentWrong ==
  [messages |-> AIMessage(<<>>,
     Str("Sorry - something went wrong while processing your request. Please try again later."))]

Nudge == Human("Respond with a real output.")

\* Lines 54-57: the dict the local `state` is rebound to.
Retried(state) == [state EXCEPT !.messages = @ \o <<Nudge>>]

\* The caller's state object after the loop rebound its local to `state`:
\* a new dict and a new list were built, the caller's are as they were.
CallerAfter(caller, state) == caller

\* The graph states __call__ is called with.
States ==
  { [messages |-> <<Human("When is my flight?")>>, user_info |-> "tickets"],
    [messages |-> <<Human("Hi"), AIMessage(<<>>, Str("Hello")), Human("Cancel my ticket")>>,
     user_info |-> "tickets"] }

NoState == [messages |-> <<>>, user_info |-> ""]

NoMessage == AIMessage(<<>>, Str(""))

NoCall ==
  [ pc |-> "idle", caller |-> NoState, given |-> NoState, state |-> NoState,
    i |-> 0, invoked |-> <<>>, last |-> NoMessage, ret |-> [messages |-> NoMessage] ]

InitAssistant == asst = NoCall

\* The graph calls the node.
AssistantCall ==
  /\ asst.pc \in {"idle", "returned"}
  /\ \E state \in States :
       asst' = [NoCall EXCEPT !.pc = "loop", !.caller = state,
                              !.given = state, !.state = state]
  /\ UNCHANGED <<vectorizer, fl, tk, tg>>

\* One pass of the loop: lines 33-59, and lines 62-67 after the last pass.
\* An exception of the invocation goes to lines 69-75.
AssistantInvoke ==
  /\ asst.pc = "loop"
  /\ \E result \in Results \cup {InvokeError} :
       LET called == [asst EXCEPT !.invoked = Append(@, asst.state.messages),
                                  !.last = result]
       IN  asst' =
             IF result = InvokeError
               THEN [called EXCEPT !.pc = "returned", !.ret = WentWrong]
             ELSE IF EmptyOutput(result)
               THEN LET state == Retried(asst.state)
                        again == [called EXCEPT !.state = state,
                                                !.caller = CallerAfter(asst.caller, state),
                                                !.i = asst.i + 1]
                    IN  IF asst.i + 1 < MAX_RECURSION_DEPTH
                          THEN again
                          ELSE [again EXCEPT !.pc = "returned", !.ret = GotStuck]
             ELSE [called EXCEPT !.pc = "returned", !.ret = [messages |-> result]]
  /\ UNCHANGED <<vectorizer, fl, tk, tg>>
\* -------------------------------------------------- search_flights
\* Python's None, as a field value.
None == "None"

FlightKeys == {"origin", "destination", "start", "end"}

Day1 == "2024-05-01"

Day2 == "2024-05-02"

\* (dt + timedelta(days=1)).date().isoformat()
NextDay(day) == IF day = Day1 THEN Day2 ELSE "2024-05-03"

\* What the model answers for a query: each field given or null.
Intents ==
  [ origin : {None, "Zurich", "Geneva"}, destination : {None, "Basel"},
    start : {None, Day1}, end : {None, Day2} ]

\* Lines 72-79 of ai_extract_flight_intent: the end date is computed when
\* the answer has a start and no end.
ai_extract_flight_intent(intent) ==
  IF intent.start # None /\ intent.end = None
    THEN [intent EXCEPT !.end = NextDay(intent.start)]
    ELSE intent

\* The flights of the database, with the cities of their airports.
FlightsTable ==
  { [flight_no |-> "LX100", departure_city |-> "Zurich", arrival_city |-> "Basel",
     scheduled_departure |-> Day1] }

\* flight_ctx.get(k): None for a key the dict does not have.
Get(ctx, k) == IF k \in DOMAIN ctx THEN ctx[k] ELSE None

\* Lines 96-100: a field of the answer replaces the kept one; a key that
\* is new is kept as None.
Merged(ctx, parsed) ==
  [k \in FlightKeys |-> IF parsed[k] # None THEN parsed[k] ELSE Get(ctx, k)]

\* Mutant of Missing: the fields are asked for in another order.
MissingStartFirst(ctx) ==
  SelectSeq(<<"start", "origin", "destination">>, LAMBDA k : Get(ctx, k) = None)

\* Lines 110-113.
Missing(ctx) ==
  SelectSeq(<<"origin", "destination", "start">>, LAMBDA k : Get(ctx, k) = None)

\* Lines 117-122.
Question(k) ==
  CASE k = "origin" -> "Got it. From which city will you be departing?"
    [] k = "destination" -> "Sure! Where would you like to fly to?"
    [] k = "start" ->
         "When would you like to travel? (e.g., this weekend or a specific date)"

\* Lines 149-155: the parameters are read from the answer to this query.
Params(parsed) ==
  [origin |-> parsed.origin, destination |-> parsed.destination,
   start |-> parsed.start, end |-> parsed.end]

\* The rows the query of lines 128-147 selects; a NULL bound selects none.
Selected(params) ==
  { f \in FlightsTable :
      /\ params.start # None /\ params.end # None
      /\ f.departure_city = params.origin
      /\ f.arrival_city = params.destination
      /\ f.scheduled_departure \in {params.start, params.end} }

NoMatch == "No matching flights found. Try changing your date or city."

\* Mutant of Cleared: the context is kept after a hit.
ClearedKept(ctx) == ctx

\* Line 166: context["flight_context"] = {}
Cleared(ctx) == [k \in {} |-> None]

NoParams == [origin |-> None, destination |-> None, start |-> None, end |-> None]

\* The return of a call: a question, the no-match message, rows, or an
\* exception that leaves the tool.
Return(kind, text, found) == [kind |-> kind, text |-> text, rows |-> found]

NoFlightCall ==
  [ flight_context |-> Cleared(<<>>), last_prompt |-> "unset", calls |-> 0,
    merged |-> Cleared(<<>>), queried |-> FALSE, params |-> NoParams,
    ret |-> Return("none", "", {}) ]

InitFlights == fl = NoFlightCall

\* One call of search_flights with the config of the conversation.
SearchFlights ==
  /\ fl.calls < MaxCalls
  /\ \E intent \in Intents :
       LET parsed     == ai_extract_flight_intent(intent)
           flight_ctx == Merged(fl.flight_context, parsed)
           missing    == Missing(flight_ctx)
           params     == Params(parsed)
           results    == Selected(params)
           called     == [fl EXCEPT !.calls = @ + 1, !.merged = flight_ctx,
                                    !.flight_context = flight_ctx,
                                    !.queried = FALSE, !.params = NoParams]
       IN  fl' =
             IF flight_ctx.start # None /\ flight_ctx.end = None
               THEN \* line 104 adds a timedelta to a string
                    [called EXCEPT !.ret = Return("raised", "TypeError", {})]
             ELSE IF missing # <<>>
               THEN [called EXCEPT !.last_prompt = missing[1],
                                   !.ret = Return("question", Question(missing[1]), {})]
             ELSE IF parsed.origin = None \/ parsed.destination = None
               THEN [called EXCEPT !.ret = Return("raised", "AttributeError", {})]
             ELSE IF results = {}
               THEN [called EXCEPT !.queried = TRUE, !.params = params,
                                   !.ret = Return("message", NoMatch, {})]
             ELSE [called EXCEPT !.queried = TRUE, !.params = params,
                                 !.flight_context = Cleared(flight_ctx),
                                 !.last_prompt = None,
                                 !.ret = Return("rows", "", results)]
  /\ UNCHANGED <<vectorizer, asst, tk, tg>>

\* ------------------------------ update_ticket_to_new_flight, cancel_ticket
\* The passenger ids a config may carry, None when it carries none.
PassengerIds == {None, "7892 191894", "3442 587242"}

TicketNos == {"T1", "T2", "T9"}

FlightIds == {101, 102}

\* The tables as the database ships: ticket T1 of the first passenger with
\* two flights, ticket T2 of the second with one; there is no ticket T9.
TicketsTable ==
  { [ticket_no |-> "T1", passenger_id |-> "7892 191894"],
    [ticket_no |-> "T2", passenger_id |-> "3442 587242"] }

TicketFlightsTable ==
  { [ticket_no |-> "T1", leg |-> 1, flight_id |-> 101],
    [ticket_no |-> "T1", leg |-> 2, flight_id |-> 102],
    [ticket_no |-> "T2", leg |-> 1, flight_id |-> 101] }

\* Mutant of TicketOf: the passenger is left out of the WHERE clause.
TicketOfAnyone(tickets, ticket_no, passenger_id) ==
  { t \in tickets : t.ticket_no = ticket_no }

\* SELECT * FROM tickets WHERE ticket_no = ? AND passenger_id = ?
TicketOf(tickets, ticket_no, passenger_id) ==
  { t \in tickets : t.ticket_no = ticket_no /\ t.passenger_id = passenger_id }

\* UPDATE ticket_flights SET flight_id = ? WHERE ticket_no = ?
Updated(ticket_flights, new_flight_id, ticket_no) ==
  { IF tf.ticket_no = ticket_no THEN [tf EXCEPT !.flight_id = new_flight_id] ELSE tf :
      tf \in ticket_flights }

\* DELETE FROM <table> WHERE ticket_no = ?
DeletedFrom(table, ticket_no) == { row \in table : row.ticket_no # ticket_no }

NoToolCall ==
  [tool |-> "", ticket_no |-> "", new_flight_id |-> 0, passenger_id |-> None]

InitTickets ==
  tk = [ tickets |-> TicketsTable, ticket_flights |-> TicketFlightsTable,
         call |-> NoToolCall, ret |-> "" ]

\* One call of update_ticket_to_new_flight.
UpdateTicket ==
  /\ \E ticket_no \in TicketNos, new_flight_id \in FlightIds, passenger_id \in PassengerIds :
       LET call   == [tool |-> "update", ticket_no |-> ticket_no,
                      new_flight_id |-> new_flight_id, passenger_id |-> passenger_id]
           ticket == TicketOf(tk.tickets, ticket_no, passenger_id)
           legs   == { tf \in tk.ticket_flights : tf.ticket_no = ticket_no }
       IN  tk' =
             IF passenger_id = None
               THEN [tk EXCEPT !.call = call, !.ret = "ValueError"]
             ELSE IF ticket = {}
               THEN [tk EXCEPT !.call = call, !.ret = "not found"]
             ELSE [tk EXCEPT !.call = call,
                             !.ticket_flights = Updated(@, new_flight_id, ticket_no),
                             !.ret = IF legs # {} THEN "updated" ELSE "failed"]
  /\ UNCHANGED <<vectorizer, asst, fl, tg>>

\* One call of cancel_ticket.
CancelTicket ==
  /\ \E ticket_no \in TicketNos, passenger_id \in PassengerIds :
       LET call   == [tool |-> "cancel", ticket_no |-> ticket_no,
                      new_flight_id |-> 0, passenger_id |-> passenger_id]
           ticket == TicketOf(tk.tickets, ticket_no, passenger_id)
       IN  tk' =
             IF passenger_id = None
               THEN [tk EXCEPT !.call = call, !.ret = "ValueError"]
             ELSE IF ticket = {}
               THEN [tk EXCEPT !.call = call, !.ret = "not found"]
             ELSE [tk EXCEPT !.call = call,
                             !.ticket_flights = DeletedFrom(@, ticket_no),
                             !.tickets = DeletedFrom(@, ticket_no),
                             !.ret = "cancelled"]
  /\ UNCHANGED <<vectorizer, asst, fl, tg>>

\* ------------------------------------------------------- the telegram bot
\* The chats that write to the bot, what they write, and the ids the
\* graph gives to the tool calls it stops before.
ChatIds == {"c1", "c2"}

UserInputs == {"y", "Y", "no"}

lower(s) == IF s = "Y" THEN "y" ELSE s

CallIds == {"call_1", "call_2"}

\* The content of the last message of type "ai" among those returned:
\* a text, the empty content of a message that only calls tools, or
\* None when no message is of that type.
Replies == {"Your ticket is changed.", "", None}

\* What the compiled graph leaves behind when invoke or stream returns:
\* either it ran to its end, or it stopped before a sensitive tool, the
\* last message of the thread holding the pending call.
GraphResults ==
  { [next |-> TRUE, call |-> k, reply |-> r] : k \in CallIds, r \in Replies }
    \cup { [next |-> FALSE, call |-> None, reply |-> r] : r \in Replies }

Snapshot(result) == [next |-> result.next, call |-> result.call]

cfg(chat_id) == [passenger_id |-> "7892 191894", thread_id |-> chat_id]

NoCfg == [passenger_id |-> None, thread_id |-> None]

\* A chat without an entry in PENDING, the entry the gate writes, and the
\* entry after the update that ends the approval path.
NoPending ==
  [has |-> FALSE, awaiting |-> FALSE, tool_call_id |-> None, config |-> NoCfg]

Gate(tool_call_id, config) ==
  [has |-> TRUE, awaiting |-> TRUE, tool_call_id |-> tool_call_id,
   config |-> config]

Resolved(pending) ==
  [pending EXCEPT !.awaiting = FALSE, !.tool_call_id = None]

\* The message text the Bot API accepts: reply_text raises BadRequest
\* for a text that is missing or empty.
Sendable(reply) == reply # None /\ reply # ""

NoHandled ==
  [chat_id |-> None, user_input |-> None, path |-> None, input |-> None,
   tool_call_id |-> None, config |-> NoCfg, returned |-> FALSE,
   sent |-> None]

InitTelegram ==
  tg = [PENDING |-> [c \in ChatIds |-> NoPending],
        graph   |-> [c \in ChatIds |-> [next |-> FALSE, call |-> None]],
        last    |-> NoHandled]

\* handle_message for a chat that awaits approval: the graph is resumed
\* or given the denial, under the stored config; the reply is sent and
\* only then is the entry updated.
ApprovalPath ==
  \E chat_id \in ChatIds, user_input \in UserInputs :
    LET pending      == tg.PENDING[chat_id]
        tool_call_id == pending.tool_call_id
        config       == pending.config
        input        == IF lower(user_input) = "y" THEN "resume" ELSE "denial"
        handled      == [chat_id |-> chat_id, user_input |-> user_input,
                         path |-> "approval", input |-> input,
                         tool_call_id |-> IF input = "denial"
                                            THEN tool_call_id ELSE None,
                         config |-> config, returned |-> FALSE,
                         sent |-> None]
    IN  /\ pending.has /\ pending.awaiting
        /\ \/ \* invoke raised
              tg' = [tg EXCEPT !.last = handled]
           \/ \E result \in GraphResults :
                tg' = [tg EXCEPT
                         !.graph[config.thread_id] = Snapshot(result),
                         !.PENDING[chat_id] =
                            IF Sendable(result.reply) THEN Resolved(@) ELSE @,
                         !.last = [handled EXCEPT
                                     !.returned = TRUE,
                                     !.sent = IF Sendable(result.reply)
                                                THEN "reply" ELSE None]]
        /\ UNCHANGED <<vectorizer, asst, fl, tk>>

\* handle_message for any other message: the graph is streamed with the
\* user's text, and the gate asks for approval when it stopped before a
\* tool call.
NormalPath ==
  \E chat_id \in ChatIds, user_input \in UserInputs :
    LET pending == tg.PENDING[chat_id]
        config  == cfg(chat_id)
        handled == [chat_id |-> chat_id, user_input |-> user_input,
                    path |-> "normal", input |-> "user",
                    tool_call_id |-> None, config |-> config,
                    returned |-> FALSE, sent |-> None]
    IN  /\ ~(pending.has /\ pending.awaiting)
        /\ \/ \* stream raised
              tg' = [tg EXCEPT !.last = handled]
           \/ \E result \in GraphResults :
                tg' = [tg EXCEPT
                         !.graph[config.thread_id] = Snapshot(result),
                         !.PENDING[chat_id] =
                            IF result.next THEN Gate(result.call, config)
                                           ELSE @,
                         !.last = [handled EXCEPT
                                     !.returned = TRUE,
                                     !.sent = IF result.next THEN "question"
                                              ELSE IF Sendable(result.reply)
                                                     THEN "reply"
                                                     ELSE "fallback"]]
        /\ UNCHANGED <<vectorizer, asst, fl, tk>>

InitAgent == InitAssistant /\ InitFlights /\ InitTickets /\ InitTelegram

\* Nothing is constructed, no tool was called and no chat has written.
Init == InitVectorizer /\ InitAgent

\* ---------------------------------------------------------- specification
Step(i) ==
  \/ Construct(i)
  \/ CreateOrClear(i)
  \/ CollectionExists(i)
  \/ DeleteCollection(i)
  \/ CreateCollection(i)
  \/ CreateEmbeddings(i)
  \/ LoadRows(i)
  \/ StartBatch(i)
  \/ TaskDone(i)
  \/ TaskFail(i)
  \/ UpsertBatch(i)
  \/ FetchFaq(i)
  \/ FaqTaskDone(i)
  \/ FaqTaskFail(i)
  \/ FaqUpsert(i)
  \/ Cancel(i)

\* The vectorizer: one instance alone on the server that indexes, over
\* every table and splitter.
Next == Step(1)

Spec == Init /\ [][Next]_vars

\* An instance that is also searched, between its other calls.
NextSearch == Step(1) \/ Search(1)

SpecSearch == Init /\ [][NextSearch]_vars

\* Two instances at work on the one server.
NextRace == \E i \in Instances : Step(i)

SpecRace == Init /\ [][NextRace]_vars

\* The assistant node of the graph, called again and again.
NextAssistant == AssistantCall \/ AssistantInvoke

SpecAssistant == Init /\ [][NextAssistant]_vars

\* The flight search tool, called again and again with one config.
NextFlights == SearchFlights

SpecFlights == Init /\ [][NextFlights]_vars

\* The ticket tools, called by any passenger for any ticket.
NextTickets == UpdateTicket \/ CancelTicket

SpecTickets == Init /\ [][NextTickets]_vars

\* The telegram bot, written to by two chats.
NextTelegram == ApprovalPath \/ NormalPath

SpecTelegram == Init /\ [][NextTelegram]_vars

\* ------------------------------------------------------------ properties
Flights == "flights_collection"

\* The text of row r of the table in the flights collection.
Text(r) == format_content(rows[r], Flights)

\* The non-empty chunks of the table, and their number: the sum of k_i.
ChunksOfTable ==
  UNION { { Chunk(Text(r), k) : k \in 1..chunker.parts[r] } : r \in 1..Len(rows) }

SumParts(n) == SumTo(chunker.parts, n)

\* Instance 1 is back from the only bulk run made on the flights collection
\* since the collection was created, and no call of the run raised.
FirstRunReturned ==
  /\ inst[1].pc = "idle"
  /\ inst[1].table_name = "flights"
  /\ store[Flights].exists
  /\ hist[Flights].runs = 1
  /\ ~hist[Flights].raised

\* C1: after a bulk run on a freshly created collection in which no
\* embedding failed, the collection holds exactly one point per non-empty
\* chunk of the table: sum of k_i points, none missing, none extra.
C1_OnePointPerChunk ==
  (FirstRunReturned /\ hist[Flights].failed = 0)
    => /\ Cardinality(store[Flights].points) = SumParts(Len(rows))
       /\ \A ch \in ChunksOfTable :
            Cardinality({ p \in store[Flights].points :
                            p.vector = generate_embedding(ch) }) = 1

\* A run of two batches, the second one partial, has returned.
C1_Witness ==
  /\ FirstRunReturned
  /\ hist[Flights].failed = 0
  /\ SumParts(Len(rows)) > batch_size
  /\ SumParts(Len(rows)) % batch_size # 0
  /\ Cardinality(store[Flights].points) = SumParts(Len(rows))

\* C2: an embedding failure in a bulk run is logged and nothing else: the
\* step that fails keeps the run in its batch with the points gathered so
\* far, and the run that returns has upserted every chunk but the failed ones.
C2_FailureIsolated ==
  /\ [](FirstRunReturned
          => Cardinality(store[Flights].points)
               = SumParts(Len(rows)) - hist[Flights].failed)
  /\ [][\A i \in Instances :
          (inst[i].pc = "gather" /\ inst'[i].skipped = inst[i].skipped + 1)
            => /\ inst'[i].pc = "gather"
               /\ inst'[i].points = inst[i].points
               /\ store' = store]_vars

\* One chunk of a first batch failed; the rest of it and a later batch are in.
C2_Witness ==
  /\ FirstRunReturned
  /\ hist[Flights].failed = 1
  /\ inst[1].result = "finished"
  /\ Cardinality(store[Flights].points) = SumParts(Len(rows)) - 1
  /\ \E p, q \in store[Flights].points : p.id[2] = 2 /\ q.id[2] > batch_size

\* C3: in a bulk run the collection changes only when no task of the batch
\* is pending.
C3_UpsertAfterSettled ==
  [][\A i \in Instances :
       (inst[i].pc = "gather" /\ store'[Coll(i)] # store[Coll(i)])
         => inst[i].pending = {}]_vars

\* A full batch whose last task completed first has been upserted.
C3_Witness ==
  /\ inst[1].pc = "batch"
  /\ inst[1].total_points = batch_size
  /\ Len(inst[1].points) = batch_size
  /\ inst[1].points[1].id[2] = batch_size
  /\ Range(inst[1].points) \subseteq store[Flights].points

\* C4: create_or_clear_collection always returns, and leaves the collection
\* existing, empty, of vector size 384 and cosine distance.
C4_CreateOrClearIdempotent ==
  [][(inst[1].pc = "coc_create" /\ inst'[1].pc # "coc_create")
       => /\ inst'[1].pc = "idle"
          /\ store'[Coll(1)] = FreshCollection(384, "Cosine")]_vars

\* The collection has been cleared after a run upserted points into it.
C4_Witness ==
  /\ inst[1].pc = "idle"
  /\ inst[1].total_points > 0
  /\ store[Coll(1)] = FreshCollection(384, "Cosine")

\* An indexing pass of instance i is under way: it is inside
\* create_or_clear_collection or inside create_embeddings.
InPass(i) ==
  inst[i].pc \in { "coc_exists", "coc_delete", "coc_create",
                   "load", "batch", "gather", "faq_fetch", "faq_gather" }

\* C5: while an instance is inside an indexing pass on a collection, no
\* step of another instance changes that collection.
C5_NoForeignWrite ==
  [][\A i \in Instances :
       (InPass(i) /\ inst'[i] = inst[i]) => store'[Coll(i)] = store[Coll(i)]]_vars

\* The chunk whose embedding is the vector of point p.
Embedded(p) == p.vector.of

\* The rows of the table that chunk ch is cut from.
RowsOf(ch) == { r \in 1..Len(rows) : ch.src = Text(r) /\ ch.part \in 1..chunker.parts[r] }

\* C6: every point of the flights collection holds the embedding of the
\* text in its content and the fields of the row that text was cut from.
C6_OwnVectorAndRecord ==
  \A p \in store[Flights].points :
    /\ p.vector = generate_embedding(p.payload["content"])
    /\ \E r \in RowsOf(Embedded(p)) :
         \A f \in DOMAIN rows[r] \ {"content"} : p.payload[f] = rows[r][f]

\* C7: every point of the flights collection has the chunk text under
\* "content" and every column of its row under the column's name.
C7_PayloadIsTextPlusRecord ==
  \A p \in store[Flights].points :
    \E r \in RowsOf(Embedded(p)) :
      /\ p.payload["content"] = Embedded(p)
      /\ \A f \in DOMAIN rows[r] : p.payload[f] = rows[r][f]

\* The points instance i upserted in its current run from pairs 1..n.
UpsertedUpTo(i, n) ==
  { p \in store[Coll(i)].points : p.id[1] = inst[i].run_no /\ p.id[2] <= n }

\* The tasks of the current batch of instance i that failed.
FailedInBatch(i) ==
  BatchLen(inst[i].paired, inst[i].bstart)
    - Cardinality(inst[i].pending) - Len(inst[i].points)

\* C8: at most batch_size tasks are pending at a time, and while a task of
\* a batch is pending every chunk of the earlier batches has either its
\* point in the collection or its failure logged.
C8_BatchesInSequence ==
  inst[1].pc = "gather"
    => /\ Cardinality(inst[1].pending) <= batch_size
       /\ inst[1].pending # {}
            => Cardinality(UpsertedUpTo(1, inst[1].bstart))
                 + (inst[1].skipped - FailedInBatch(1)) = inst[1].bstart

\* A task of a second batch is pending after a first batch was upserted.
C8_Witness ==
  /\ inst[1].pc = "gather"
  /\ inst[1].bstart = batch_size
  /\ inst[1].pending # {}
  /\ Cardinality(UpsertedUpTo(1, batch_size)) = batch_size

\* C9: without a failure, after r bulk runs on a collection that was not
\* cleared in between the collection holds r times the chunks of the table.
C9_RerunMultiplies ==
  ( /\ inst[1].pc = "idle"
    /\ inst[1].table_name = "flights"
    /\ store[Flights].exists
    /\ ~hist[Flights].raised
    /\ hist[Flights].failed = 0 )
    => Cardinality(store[Flights].points)
         = hist[Flights].runs * SumParts(Len(rows))

\* A second run has doubled the points of the first.
C9_Witness ==
  /\ inst[1].pc = "idle"
  /\ hist[Flights].runs = 2
  /\ hist[Flights].failed = 0
  /\ ~hist[Flights].raised
  /\ SumParts(Len(rows)) > 0
  /\ Cardinality(store[Flights].points) = 2 * SumParts(Len(rows))

\* C10: in FAQ indexing the failed embedding of a section does not fail the run.
C10_FaqFailureScoped ==
  \A i \in Instances :
    (inst[i].table_name = "faq" /\ inst[i].skipped > 0) => inst[i].pc # "raised"

\* C11: the body of a response that is not a success is never indexed: no
\* point of any collection is the embedding of a piece of such a body.
C11_FailedFetchNotIndexed ==
  \A c \in CollNames : \A p \in store[c].points : Embedded(p).src # ErrorPage

\* C12: format_content never raises: for every row of the table that was
\* read, whatever its columns, the text formatted for the flights
\* collection is a string and not a KeyError, no run ends in a KeyError,
\* and for a collection name that is not one of the five the text is the
\* generic string form of the row.
C12_FormatTotal ==
  /\ \A r \in 1..Len(rows) :
       /\ format_content(rows[r], Flights) # KeyError
       /\ format_content(rows[r], "example_collection")
            = [template |-> "str", args |-> rows[r]]
  /\ \A i \in Instances : inst[i].result # "KeyError"

\* Lines 185-187: what the closing log line of a bulk run carries.
FinishedReport(r) ==
  [collection_name |-> r.collection_name, total_points |-> r.total_points]

\* C13: the closing report of a bulk run carries the number of points the
\* run upserted and the number of chunks it skipped, and the two add up to
\* the number of chunks of the table.
C13_ReportsBothTotals ==
  (FirstRunReturned /\ inst[1].result = "finished")
    => LET report == FinishedReport(inst[1])
       IN  /\ report.total_points = Cardinality(UpsertedUpTo(1, MaxChunks))
           /\ "skipped" \in DOMAIN report
           /\ report.skipped = hist[Flights].failed
           /\ report.total_points + report.skipped = SumParts(Len(rows))

\* The points of the current run of instance i in collection `coll`.
PointsOfRun(i, coll) == { p \in coll.points : p.id[1] = inst[i].run_no }

\* C14: when the upsert of a batch of a bulk run raises, the points of the
\* earlier batches stay in the collection, no point of this batch or of a
\* later one is in it, and what the run raises carries the number of points
\* the earlier batches committed.
C14_PartialProgressKept ==
  [][(inst[1].pc = "gather" /\ inst'[1].result = "UpsertError")
       => /\ PointsOfRun(1, store'[Coll(1)]) = PointsOfRun(1, store[Coll(1)])
          /\ \A p \in PointsOfRun(1, store'[Coll(1)]) : p.id[2] <= inst[1].bstart
          /\ inst[1].total_points = Cardinality(PointsOfRun(1, store[Coll(1)]))
          /\ inst'[1].total_points = inst[1].total_points]_vars

\* C15: a call that fails for a passing cause is tried again before the
\* run is failed: the step in which the upsert of a batch into an existing
\* collection fails for the first time, or the fetch of the FAQ document
\* does, is not the step that ends the run with that failure.
C15_TransientRetried ==
  [][\A i \in Instances :
       /\ (inst[i].pc \in {"gather", "faq_gather"} /\ store[Coll(i)].exists)
            => inst'[i].result # "UpsertError"
       /\ inst[i].pc = "faq_fetch" => inst'[i].result # "ClientError"]_vars

\* C16: a bulk run that is cancelled finishes the batch in flight first:
\* the step that ends the run with the cancellation is taken with no task
\* of the batch pending, and every point the run has embedded is in the
\* collection after it.
C16_CancelAfterBatch ==
  [][\A i \in Instances :
       (inst[i].pc = "gather" /\ inst'[i].result = "CancelledError")
         => /\ Range(inst[i].points) \subseteq store'[Coll(i)].points
            /\ inst[i].pending = {}]_vars

\* The points of its collection that hit h of instance i may stand for.
PointsOfHit(i, h) ==
  { p \in store[Coll(i)].points :
      /\ p.id = h.id
      /\ p.payload = h.payload
      /\ h.score = Similarity(generate_embedding(inst[i].hits.query), p.vector) }

\* C17: what a search with limit n returned is a sequence of at most n
\* hits, each a different point of the collection as it is, in order of
\* non-increasing similarity to the embedding of the query, the first one
\* as near as any point of the collection; it is empty for an empty
\* collection.
C17_SearchTopLimit ==
  LET hits   == inst[1].hits
      answer == hits.result
  IN  hits.limit > 0
        => /\ inst[1].pc = "idle"
           /\ Len(answer) <= hits.limit
           /\ \A j \in 1..Len(answer) : PointsOfHit(1, answer[j]) # {}
           /\ \A j, k \in 1..Len(answer) : j < k =>
                /\ answer[j].id # answer[k].id
                /\ answer[j].score >= answer[k].score
           /\ answer # <<>> =>
                \A p \in store[Coll(1)].points :
                  Similarity(generate_embedding(hits.query), p.vector) <= answer[1].score
           /\ store[Coll(1)].points = {} => answer = <<>>

\* A search with limit 2 in a collection of more points returned two hits
\* of different similarity, the nearer one first.
C17_Witness ==
  /\ inst[1].hits.limit = 2
  /\ Cardinality(store[Coll(1)].points) > 2
  /\ Len(inst[1].hits.result) = 2
  /\ inst[1].hits.result[1].score > inst[1].hits.result[2].score

\* A search in a collection that exists and is empty returned no hit.
C17_WitnessEmpty ==
  /\ inst[1].hits.limit > 0
  /\ store[Coll(1)] = FreshCollection(384, "Cosine")
  /\ inst[1].hits.result = <<>>

\* Instance i is inside create_or_clear_collection or inside a run of
\* create_embeddings.
Writing(i) ==
  inst[i].pc \in { "coc_delete", "coc_create", "gather", "faq_gather" }

\* C18: the store changes only in a step of create_or_clear_collection or
\* of an indexing run; a search, and the construction of an instance with
\* create_collection left False, leave every collection, its configuration
\* and its points as they were.
C18_ReadPathNeverWrites ==
  [][/\ store' # store => Writing(1)
     /\ (inst[1].pc = "idle" /\ inst'[1].pc \in {"idle", "raised"}) => store' = store
     /\ (inst[1].pc = "none" /\ inst'[1].pc = "idle") => store' = store]_vars

\* A search has answered from a collection that holds points, which are
\* all still there.
C18_Witness ==
  /\ inst[1].hits.limit > 0
  /\ inst[1].hits.result # <<>>
  /\ Cardinality(store[Coll(1)].points) > Len(inst[1].hits.result)

\* C19: a bulk run that finds no row in its table returns with the warning
\* in the step that read the table: no task is started, no point is
\* embedded, and the store is as it was.
C19_EmptyTableNoError ==
  [][(inst[1].pc = "load" /\ inst'[1].pc # "load" /\ rows' = <<>>)
       => /\ inst'[1].pc = "idle"
          /\ inst'[1].result = "no_data"
          /\ inst'[1].pending = {}
          /\ inst'[1].points = <<>>
          /\ inst'[1].total_points = 0
          /\ store' = store]_vars

\* A run on an empty table has returned; the collection it was created
\* with is still there, empty.
C19_Witness ==
  /\ read
  /\ rows = <<>>
  /\ inst[1].pc = "idle"
  /\ inst[1].result = "no_data"
  /\ store[Flights] = FreshCollection(384, "Cosine")

\* Instance i is at the upsert of a batch: its tasks have settled and it
\* has points to send.
AtUpsert(i) ==
  /\ inst[i].pending = {}
  /\ \/ inst[i].pc = "gather" /\ inst[i].points # <<>>
     \/ inst[i].pc = "faq_gather"

\* C20: an upsert is issued only against a collection that has been
\* created: whenever a run takes the step of its upsert, the collection of
\* the instance exists.
C20_UpsertOnlyIntoCreated ==
  [][\A i \in Instances :
       (AtUpsert(i) /\ inst'[i] # inst[i]) => store[Coll(i)].exists]_vars

\* The points a step adds to the collection of instance i.
Added(i) == store'[Coll(i)].points \ store[Coll(i)].points

HasOutput(result) ==
  \/ result.tool_calls # <<>>
  \/ ~result.content.list /\ result.content.text # ""
  \/ /\ result.content.list
     /\ result.content.blocks # <<>>
     /\ result.content.blocks[1].text # ""

C22_WitnessRaised ==
  /\ asst.pc = "returned"
  /\ asst.ret = WentWrong
  /\ Len(asst.invoked) > 1

\* C23: after an empty output the runnable is invoked once more and no
\* further: every invocation after the first is made on the messages the
\* call was given followed by the one user message 'Respond with a real
\* output.', and the state object of the caller is as it was given.
C23_RetriesOnce ==
  /\ asst.caller = asst.given
  /\ \A k \in 2..Len(asst.invoked) :
       asst.invoked[k] = asst.given.messages \o <<Nudge>>
  /\ Len(asst.invoked) <= 2

\* The first of origin, destination, start that context ctx does not have.
FirstMissing(ctx) ==
  IF Get(ctx, "origin") = None THEN "origin"
  ELSE IF Get(ctx, "destination") = None THEN "destination"
  ELSE IF Get(ctx, "start") = None THEN "start"
  ELSE None

\* C24: a call after which origin, destination and start have all been
\* supplied, in this call or in earlier ones, runs the flight query with
\* the values kept in the context and returns rows or the no-match message.
C24_PersistedFieldsQueried ==
  (fl.calls > 0 /\ FirstMissing(fl.merged) = None)
    => /\ fl.ret.kind \in {"rows", "message"}
       /\ fl.queried
       /\ \A k \in FlightKeys : fl.params[k] = fl.merged[k]

\* C25: a call that leaves one of origin, destination, start unknown runs
\* no query, sets last_prompt to the first unknown one and returns its
\* question; a call that returns rows leaves the context empty and
\* last_prompt None; a call that finds no flight keeps the context.
C25_AskFirstMissing ==
  fl.calls > 0
    => /\ FirstMissing(fl.merged) # None
            => /\ ~fl.queried
               /\ fl.last_prompt = FirstMissing(fl.merged)
               /\ fl.ret = Return("question", Question(FirstMissing(fl.merged)), {})
       /\ fl.ret.kind = "rows"
            => /\ fl.ret.rows # {}
               /\ DOMAIN fl.flight_context = {}
               /\ fl.last_prompt = None
       /\ fl.ret.kind = "message"
            => /\ fl.ret.text = NoMatch
               /\ fl.flight_context = fl.merged
       /\ fl.queried => FirstMissing(fl.merged) = None

\* After a question for the destination, a call has found a flight and
\* cleared the context.
C25_Witness ==
  /\ fl.calls > 1
  /\ fl.ret.kind = "rows"
  /\ DOMAIN fl.flight_context = {}
  /\ fl.last_prompt = None

\* A call has asked for the start date, origin and destination being known.
C25_WitnessAsked ==
  /\ fl.ret.kind = "question"
  /\ fl.last_prompt = "start"
  /\ fl.merged.origin # None

\* C28: a call of a ticket tool without a passenger id raises ValueError,
\* and one for a ticket that does not exist or is another passenger's
\* returns the not-found message, both with the two tables as they were;
\* no call changes or removes a row of a ticket other than the one named,
\* and none adds a row to tickets.
C28_OnlyOwnTicket ==
  [][tk' # tk =>
       LET call == tk'.call
           own  == \E t \in tk.tickets : /\ t.ticket_no = call.ticket_no
                                         /\ t.passenger_id = call.passenger_id
           same == /\ tk'.tickets = tk.tickets
                   /\ tk'.ticket_flights = tk.ticket_flights
       IN  /\ call.passenger_id = None => tk'.ret = "ValueError" /\ same
           /\ (call.passenger_id # None /\ ~own) => tk'.ret = "not found" /\ same
           /\ tk'.tickets \subseteq tk.tickets
           /\ \A t \in tk.tickets : t.ticket_no # call.ticket_no => t \in tk'.tickets
           /\ \A tf \in tk.ticket_flights :
                tf.ticket_no # call.ticket_no => tf \in tk'.ticket_flights
           /\ \A tf \in tk'.ticket_flights :
                tf.ticket_no # call.ticket_no => tf \in tk.ticket_flights]_vars

\* The first passenger has cancelled the own ticket and then asked to
\* cancel the ticket of the second, which is still there with its flight.
C28_Witness ==
  /\ tk.call.tool = "cancel"
  /\ tk.call.ticket_no = "T2"
  /\ tk.call.passenger_id = "7892 191894"
  /\ tk.ret = "not found"
  /\ tk.tickets = { [ticket_no |-> "T2", passenger_id |-> "3442 587242"] }
  /\ tk.ticket_flights = { [ticket_no |-> "T2", leg |-> 1, flight_id |-> 101] }

\* C26: once handle_message has handled a message of a chat to its end,
\* on either path, a graph stopped before a sensitive tool call for that
\* chat means that PENDING holds the chat as awaiting with the id of that
\* call and that the user was asked to approve.
C26_GateAfterEveryMessage ==
  \A c \in ChatIds :
    (/\ tg.last.chat_id = c
     /\ tg.last.returned
     /\ tg.last.sent # None
     /\ tg.graph[c].next) =>
        /\ tg.PENDING[c].has
        /\ tg.PENDING[c].awaiting
        /\ tg.PENDING[c].tool_call_id = tg.graph[c].call
        /\ tg.last.sent = "question"

\* C27: a message of a chat that awaits approval resumes the graph when
\* it is y in either case and otherwise gives it the denial with the
\* stored tool call id, both under the stored config; whenever the graph
\* returns, the chat is no longer awaiting and its tool call id is None;
\* the entries of the other chats stay as they were.
C27_ApprovalResolved ==
  [][(tg' # tg /\ tg'.last.path = "approval") =>
       LET c       == tg'.last.chat_id
           pending == tg.PENDING[c]
       IN  /\ tg'.last.input =
                IF tg'.last.user_input \in {"y", "Y"} THEN "resume" ELSE "denial"
           /\ tg'.last.input = "denial" =>
                tg'.last.tool_call_id = pending.tool_call_id
           /\ tg'.last.config = pending.config
           /\ tg'.last.returned =>
                /\ ~tg'.PENDING[c].awaiting
                /\ tg'.PENDING[c].tool_call_id = None
           /\ \A d \in ChatIds \ {c} : tg'.PENDING[d] = tg.PENDING[d]]_vars

====
